---- MODULE Spec2Model ----
(***************************************************************************)
(* Model of src/main.py (a Qix-style territory capture game): the Player   *)
(* aggregate (position, trace, territory set, direction), the closure      *)
(* algorithm of Player.stop_drawing with its geometric primitives, and the *)
(* per-frame update of main().                                             *)
(*                                                                         *)
(* Points are pairs <<x, y>> of integers.  Sequences are 1-based, so a     *)
(* Python index i is i + 1 here; a failed index lookup (None) is 0.        *)
(* Real-valued results are kept exact: an area is carried as twice its     *)
(* value, a percentage as a numerator over 2 * total_area, and the test    *)
(* point of the closure as a midpoint plus an offset direction (see        *)
(* test_point).                                                            *)
(***************************************************************************)
EXTENDS Integers, Sequences, FiniteSets

\* ------------------------------------------------------------ constants
WIDTH == 1920
HEIGHT == 1080
TARGET_FILL_PERCENTAGE == 75
speed == 4
\* tolerance of get_boundary_side
side_tol == 2
\* tolerance of is_on_boundary against a polygon edge
edge_tol == 2
\* length of the test point's offset
offset_len == 5

\* ------------------------------------------------------------ bounds
\* longest trace (points of temp_points) explored
MaxTrace == 4
\* most polygons in filled_areas explored from the start of a round
MaxAreas == 1
\* free (non-drawing) movement is explored within |x|, |y| <= MaxCoord
MaxCoord == 4
\* steps along each side of the first and of the second square captured by
\* the script of SpecOverlap
SquareA == 250
SquareB == 260
\* longest trace explored by SpecLoop
MaxLoop == 7

None == "None"

Abs(n) == IF n < 0 THEN -n ELSE n
Sign(n) == IF n > 0 THEN 1 ELSE IF n < 0 THEN -1 ELSE 0
Min2(a, b) == IF a < b THEN a ELSE b
Max2(a, b) == IF a > b THEN a ELSE b
Reverse(s) == [i \in 1..Len(s) |-> s[Len(s) + 1 - i]]

\* ------------------------------------------------------------ wide naturals
\* Naturals beyond the machine width, as their digits in base Base, least
\* significant first and without leading zeros (<<>> is 0).  They carry the
\* comparisons of products that decide on which side of a floating-point
\* comparison of the code an exact value lies, and whether it lies within the
\* rounding error of the code's arithmetic.
Base == 10000

RECURSIVE Digits(_)
Digits(n) == IF n = 0 THEN <<>> ELSE <<n % Base>> \o Digits(n \div Base)

\* The digits of the number whose columns (digit sums or digit-product sums)
\* are cols[k..], with carry carried in.
RECURSIVE PropagateCarry(_, _, _)
PropagateCarry(cols, k, carry) ==
    IF k > Len(cols) THEN Digits(carry)
    ELSE LET t == cols[k] + carry
         IN  <<t % Base>> \o PropagateCarry(cols, k + 1, t \div Base)

DigitAt(u, k) == IF 1 <= k /\ k <= Len(u) THEN u[k] ELSE 0

DigitsPlus(u, v) ==
    PropagateCarry([k \in 1..Max2(Len(u), Len(v)) |-> DigitAt(u, k) + DigitAt(v, k)], 1, 0)

\* The sum of u[i] * v[k + 1 - i] for i in lo..Len(u).
RECURSIVE ColumnSum(_, _, _, _)
ColumnSum(u, v, k, lo) ==
    IF lo > Len(u) THEN 0
    ELSE u[lo] * DigitAt(v, k + 1 - lo) + ColumnSum(u, v, k, lo + 1)

DigitsTimes(u, v) ==
    IF u = <<>> \/ v = <<>> THEN <<>>
    ELSE PropagateCarry([k \in 1..(Len(u) + Len(v) - 1) |-> ColumnSum(u, v, k, 1)], 1, 0)

\* The sign of u - v, decided from digit k down.
RECURSIVE DigitsCompareFrom(_, _, _)
DigitsCompareFrom(u, v, k) ==
    IF k = 0 THEN 0
    ELSE IF u[k] # v[k] THEN Sign(u[k] - v[k])
    ELSE DigitsCompareFrom(u, v, k - 1)

DigitsCompare(u, v) ==
    IF Len(u) # Len(v) THEN Sign(Len(u) - Len(v))
    ELSE DigitsCompareFrom(u, v, Len(u))

\* The largest m in lo..hi with m * m <= n.
RECURSIVE IsqrtIn(_, _, _)
IsqrtIn(n, lo, hi) ==
    IF lo = hi THEN lo
    ELSE LET mid == (lo + hi + 1) \div 2
         IN  IF mid * mid <= n THEN IsqrtIn(n, mid, hi) ELSE IsqrtIn(n, lo, mid - 1)

\* floor(sqrt(n)) for a natural n of the machine width.
Isqrt(n) == IsqrtIn(n, 0, 46340)

\* 2^53 = 9007199254740992 in digits: a double carries 53 significant bits,
\* so one rounding moves a value v by at most |v| / 2^53.
TwoTo53 == <<992, 5474, 1992, 9007>>

\* Whether |X - Y| * 2^53 <= reach, for X53 = X * 2^53 and Y53 = Y * 2^53:
\* the exact values X and Y differ by no more than the rounding error that
\* reach stands for.
WithinRounding(X53, Y53, reach) ==
    /\ DigitsCompare(X53, DigitsPlus(Y53, reach)) <= 0
    /\ DigitsCompare(Y53, DigitsPlus(X53, reach)) <= 0

\* ------------------------------------------------------------ boundary
\* Player.generate_boundary_points: top, right, bottom, left, corners once.
generate_boundary_points ==
    [i \in 1..WIDTH |-> <<i - 1, 0>>]
    \o [i \in 1..(HEIGHT - 1) |-> <<WIDTH - 1, i>>]
    \o [i \in 1..(WIDTH - 1) |-> <<WIDTH - 1 - i, HEIGHT - 1>>]
    \o [i \in 1..(HEIGHT - 2) |-> <<0, HEIGHT - 1 - i>>]

\* Player.boundary_points: only ever assigned generate_boundary_points()
\* (in __init__ and at the end of a successful closure).
boundary_points == generate_boundary_points

BoundarySet == {boundary_points[i] : i \in DOMAIN boundary_points}

\* ------------------------------------------------------------ primitives
\* The values the comparison can take for a projection strictly inside the
\* segment, for X = cross^2 and Y = tol^2 * len_sq in digits: the exact
\* distance is |cross| / sqrt(len_sq).  On a segment parallel to an axis
\* (along_axis) the projection is off along the segment only, which the sum
\* of squares absorbs while the coordinates stay below 2^24; beyond, a
\* distance of exactly tol may come out above tol.  On a slanted segment the
\* code rounds param, xx = x1 + param * C and yy = y1 + param * D (lines
\* 61-69), each to the precision of a coordinate of magnitude at most mag,
\* and then the square root: its distance is off by less than
\* 12 * (mag + 1) / 2^53.  The exact distance is
\* |X - Y| / (len_sq * (distance + tol)) from tol, which is within that error
\* only if |X - Y| * 2^53 <= 24 * tol * len_sq * (mag + 1), and then both
\* values are possible.  Up to mag = 8191 that is the case for X = Y alone.
projected_distance_le(X, Y, along_axis, len_sq, tol, mag) ==
    IF DigitsCompare(X, Y) = 0
    THEN (IF along_axis /\ mag <= 16777216 THEN {TRUE} ELSE BOOLEAN)
    ELSE IF /\ ~along_axis
            /\ mag > 8191
            /\ WithinRounding(DigitsTimes(X, TwoTo53), DigitsTimes(Y, TwoTo53),
                              DigitsTimes(DigitsTimes(Digits(24 * tol), Digits(len_sq)),
                                          Digits(mag + 1)))
         THEN BOOLEAN
    ELSE {DigitsCompare(X, Y) < 0}

\* dx * dx + dy * dy <= tol * tol for integers, without squaring a long side.
WithinSquared(dx, dy, tol) ==
    Abs(dx) <= tol /\ Abs(dy) <= tol /\ dx * dx + dy * dy <= tol * tol

\* The values point_to_line_distance(x, y, x1, y1, x2, y2) <= tol can take,
\* decided on squared lengths: the clamped projection is an endpoint when
\* param < 0 or param > 1, and otherwise the distance is |cross| / sqrt(len_sq).
\* The code computes in floating point.  Its distance is exact at an endpoint
\* (also for param = 0 and param = 1, where xx and yy are an endpoint).  For
\* a projection strictly inside the segment see projected_distance_le; the
\* comparison of cross^2 with tol^2 * len_sq is made in machine integers
\* where they suffice (narrow), and there rounding decides it only when the
\* two are equal on a slanted segment.
point_to_line_distance_le(px, py, x1, y1, x2, y2, tol) ==
    LET A == px - x1
        B == py - y1
        C == x2 - x1
        D == y2 - y1
        dot == A * C + B * D
        len_sq == C * C + D * D
        cross == A * D - B * C
        mag == Max2(Max2(Abs(x1), Abs(x2)), Max2(Abs(y1), Abs(y2)))
        narrow == /\ mag <= 8191
                  /\ Abs(cross) <= 46340
                  /\ len_sq <= 2147483647 \div (tol * tol)
        diff == cross * cross - tol * tol * len_sq
    IN  IF len_sq = 0 THEN {WithinSquared(A, B, tol)}
        ELSE IF dot <= 0 THEN {WithinSquared(A, B, tol)}
        ELSE IF dot >= len_sq THEN {WithinSquared(px - x2, py - y2, tol)}
        ELSE IF narrow
             THEN (IF diff = 0 /\ C # 0 /\ D # 0 THEN BOOLEAN ELSE {diff <= 0})
        ELSE projected_distance_le(DigitsTimes(Digits(Abs(cross)), Digits(Abs(cross))),
                                   DigitsTimes(Digits(tol * tol), Digits(len_sq)),
                                   C = 0 \/ D = 0, len_sq, tol, mag)

\* The sum of polygon[i][0] * polygon[i+1][1] - polygon[i+1][0] * polygon[i][1]
\* for i in lo..hi (1-based), split in halves to keep the evaluation shallow.
RECURSIVE ShoelaceSum(_, _, _)
ShoelaceSum(polygon, lo, hi) ==
    IF lo > hi THEN 0
    ELSE IF lo = hi
         THEN polygon[lo][1] * polygon[lo + 1][2] - polygon[lo + 1][1] * polygon[lo][2]
    ELSE LET mid == (lo + hi) \div 2
         IN  ShoelaceSum(polygon, lo, mid) + ShoelaceSum(polygon, mid + 1, hi)

\* Player.calculate_polygon_area, as twice the area (abs(area) / 2 doubled).
calculate_polygon_area2(polygon) == Abs(ShoelaceSum(polygon, 1, Len(polygon) - 1))

RECURSIVE SumAreas2(_, _)
SumAreas2(areas, k) ==
    IF k = 0 THEN 0
    ELSE SumAreas2(areas, k - 1)
         + (IF Len(areas[k]) < 3 THEN 0 ELSE calculate_polygon_area2(areas[k]))

\* calculate_area_percentage(filled_areas, total_area) = (filled / total_area) * 100,
\* as the numerator of a fraction with denominator 2 * total_area.
calculate_area_percentage_num(areas) == 100 * SumAreas2(areas, Len(areas))

total_area == WIDTH * HEIGHT
percentage_den == 2 * total_area

\* The signs the code's value of q = a + 2 * offset_len * b / sqrt(S) can
\* take for integers a, b and S >= 0, decided in wide naturals; the offset
\* term is 0 when S = 0 (length == 0 gives a zero offset).  The code's value
\* is off from q by less than 12 * mag * span / 2^53 (see EdgeToggles), and
\* any sign is possible when |q| is within that error: with
\* r1 = floor(sqrt(S)) + 1 > sqrt(S),
\*   |q| = |a|                                          when the offset is 0,
\*   |q| > (|a| * r1 + 10 |b|) / r1                     when a and b agree in sign,
\*   |q| > |a^2 S - 100 b^2| / (r1 * (|a| * r1 + 10 |b|))  when they differ.
\* When q = 0 the code's value is 0 if the offset is computed exactly
\* (exact), and otherwise a rounding residue of either sign, or zero.
\*
\* a and b of opposite signs, for X = a^2 * S, Y = (2 * offset_len * b)^2 and
\* reach = 12 * mag * span * r1 * (|a| * r1 + 2 * offset_len * |b|).
OffsetSignOpposed(a, exact, X, Y, reach) ==
    IF DigitsCompare(X, Y) = 0 THEN (IF exact THEN {0} ELSE {-1, 0, 1})
    ELSE IF WithinRounding(DigitsTimes(X, TwoTo53), DigitsTimes(Y, TwoTo53), reach)
         THEN {-1, 0, 1}
    ELSE {Sign(a) * DigitsCompare(X, Y)}

\* A nonzero offset term, for weight = |a| * r1 + 2 * offset_len * |b| and
\* errorR = 12 * mag * span * r1.
OffsetSignWeighed(a, b, S, exact, na, nb, weight, errorR) ==
    IF a = 0 \/ Sign(a) = Sign(b)
    THEN (IF DigitsCompare(DigitsTimes(weight, TwoTo53), errorR) <= 0 THEN {-1, 0, 1}
          ELSE {Sign(b)})
    ELSE OffsetSignOpposed(a, exact, DigitsTimes(DigitsTimes(na, na), Digits(S)),
                           DigitsTimes(nb, nb), DigitsTimes(errorR, weight))

\* na = |a|, nb = 2 * offset_len * |b|, r1 and error = 12 * mag * span in digits.
OffsetSignDigits(a, b, S, exact, na, nb, r1, error) ==
    IF S = 0 \/ b = 0
    THEN (IF a = 0 THEN {0}
          ELSE IF DigitsCompare(DigitsTimes(na, TwoTo53), error) <= 0 THEN {-1, 0, 1}
          ELSE {Sign(a)})
    ELSE OffsetSignWeighed(a, b, S, exact, na, nb,
                           DigitsPlus(DigitsTimes(na, r1), nb), DigitsTimes(error, r1))

OffsetSignWide(a, b, S, exact, mag, span) ==
    OffsetSignDigits(a, b, S, exact, Digits(Abs(a)),
                     DigitsTimes(Digits(2 * offset_len), Digits(Abs(b))),
                     Digits(Isqrt(S) + 1),
                     DigitsTimes(Digits(12), DigitsTimes(Digits(mag), Digits(span))))

\* OffsetSignWide, decided in machine integers where they suffice: for
\* mag <= 4096, span <= 2048 and |a| <= 2^23 the error is below 2^27 / 2^53,
\* which q exceeds whenever the offset is 0 and a is not, a and b agree in
\* sign, or a alone outweighs the offset term.  |b| <= sqrt(S) * r for the
\* callers' r (r2 = r^2), so the term is at most 2 * offset_len * r in
\* magnitude.  Where a does not outweigh it in a coordinate test (span = 1,
\* r2 = 1, so |a| <= 2 * offset_len and |b| <= sqrt(S)), the error is below
\* 1 / (r1 * (|a| * r1 + 10 |b|)), which q exceeds unless q = 0.
OffsetSign(a, b, S, r2, exact, mag, span) ==
    LET narrow == mag <= 4096 /\ span <= 2048 /\ Abs(a) <= 8388608
        N == a * a * S - 4 * offset_len * offset_len * b * b
    IN  IF narrow /\ (S = 0 \/ b = 0) THEN {Sign(a)}
        ELSE IF narrow /\ (a = 0 \/ Sign(a) = Sign(b)) THEN {Sign(b)}
        ELSE IF narrow /\ (Abs(a) > 46340 \/ a * a > 4 * offset_len * offset_len * r2)
             THEN {Sign(a)}
        ELSE IF narrow /\ span = 1 /\ r2 = 1 /\ S <= 21474836
             THEN (IF N # 0 THEN {Sign(a) * Sign(N)}
                   ELSE IF exact THEN {0} ELSE {-1, 0, 1})
        ELSE OffsetSignWide(a, b, S, exact, mag, span)

\* The values the nested tests of one edge of point_in_polygon (lines 39-45)
\* can take, given the values each test can take: the edge does not toggle
\* once a test surely fails, toggles when all surely pass, and either
\* otherwise.  A later test is not evaluated once an earlier one surely fails.
NestedTests(above, below, left, before) ==
    IF above = {FALSE} THEN {FALSE}
    ELSE IF below = {FALSE} THEN {FALSE}
    ELSE IF left = {FALSE} THEN {FALSE}
    ELSE IF before = {FALSE} THEN {FALSE}
    ELSE IF above = {TRUE} /\ below = {TRUE} /\ left = {TRUE} /\ before = {TRUE}
         THEN {TRUE}
    ELSE BOOLEAN

\* point_in_polygon(point, polygon) for the closure's test point
\* point = (tp.mx2 / 2 + offset_len * tp.vx / L, tp.my2 / 2 + offset_len * tp.vy / L),
\* L = sqrt(tp.vx^2 + tp.vy^2).  Edge k runs from polygon[k] to polygon[k % n + 1];
\* the loop toggles `inside` once per edge that passes the nested tests, so the
\* result is the parity of the number of such edges.
\*
\* EdgeToggles is the set of values the nested tests of one edge can take: a
\* test whose two sides are equal in exact arithmetic is decided by the
\* rounding of the test point and of xinters, so either value is possible.
\* That includes an edge on the line through the midpoint along the offset
\* (A = 0 and B = 0), where x and xinters are two roundings of one number.
\* An offset along an axis is exact: math.hypot returns the length exactly,
\* the unit vector is 0 and +-1, and the test point carries no rounding, so
\* a tie is decided as in exact arithmetic.
\* Away from a tie the code's values are off by their roundings (lines
\* 325-347 and 43): a coordinate of the test point by less than
\* (|m| + 25) / 2^53 for its midpoint coordinate m, and xinters by the error
\* of y scaled by |Dx / Dy|, plus 3 |Dx| / 2^53 for its product, quotient
\* and difference, plus |xinters| / 2^53 for its sum.  In the units of the
\* signs below that is less than 12 * mag * span / 2^53, for mag the largest
\* magnitude involved (at least 50) and span the longer side of the edge
\* (1 for a coordinate test).
EdgeToggles(tp, p1, p2) ==
    LET S == tp.vx * tp.vx + tp.vy * tp.vy
        exact == tp.vx = 0 \/ tp.vy = 0
        \* signs of 2 * (y - c) and of 2 * (x - c)
        ySign(c) == OffsetSign(tp.my2 - 2 * c, tp.vy, S, 1, exact,
                               Max2(Abs(tp.my2), 50), 1)
        xSign(c) == OffsetSign(tp.mx2 - 2 * c, tp.vx, S, 1, exact,
                               Max2(Abs(tp.mx2), 50), 1)
        Dx == p2[1] - p1[1]
        Dy == p2[2] - p1[2]
        \* 2 * Dy * (x - xinters) = A + 2 * offset_len * B / L
        A == (tp.mx2 - 2 * p1[1]) * Dy - (tp.my2 - 2 * p1[2]) * Dx
        B == tp.vx * Dy - tp.vy * Dx
        mag == Max2(Max2(Max2(Abs(tp.mx2), Abs(tp.my2)), Max2(Abs(p1[1]), Abs(p2[1]))),
                    Max2(Max2(Abs(Dx), Abs(Dy)), 50))
        above == {s > 0 : s \in ySign(Min2(p1[2], p2[2]))}
        below == {s <= 0 : s \in ySign(Max2(p1[2], p2[2]))}
        left == {s <= 0 : s \in xSign(Max2(p1[1], p2[1]))}
        before == IF p1[1] = p2[1] THEN {TRUE}
                  ELSE IF A = 0 /\ B = 0 /\ ~exact THEN BOOLEAN
                  ELSE {Sign(Dy) * s <= 0 :
                           s \in OffsetSign(A, B, S, Dx * Dx + Dy * Dy, exact,
                                            mag, Max2(Abs(Dx), Abs(Dy)))}
    IN  NestedTests(above, below, left, before)

\* The values `inside` can have after the loop, for toggles[k] the values
\* the tests of edge k can take: the parity of the toggling edges, or either
\* value when rounding decides some edge.
inside_of(toggles) ==
    IF \E k \in DOMAIN toggles : toggles[k] = BOOLEAN THEN BOOLEAN
    ELSE {Cardinality({k \in DOMAIN toggles : toggles[k] = {TRUE}}) % 2 = 1}

\* The values point_in_polygon(point, polygon) can take.
point_in_polygon(tp, polygon) ==
    LET n == Len(polygon)
    IN  inside_of([k \in 1..n |-> EdgeToggles(tp, polygon[k], polygon[(k % n) + 1])])

\* ------------------------------------------------------------ player
\* A player value p is a record of the fields of Player that the game logic
\* reads: x, y, drawing, temp_points, filled_areas, current_direction.

\* The values the loops of is_on_boundary over the polygon edges can return,
\* for the set of values the distance tests of the edges can take.
near_some_edge(within) ==
    IF {TRUE} \in within THEN {TRUE}
    ELSE IF BOOLEAN \in within THEN BOOLEAN
    ELSE {FALSE}

\* The values Player.is_on_boundary(x, y) can take, read against
\* p.filled_areas: True when the point is a boundary point or some polygon
\* edge is surely within edge_tol; otherwise either value when rounding
\* decides the distance to some edge, and False when no edge is near.
is_on_boundary(p, px, py) ==
    IF <<px, py>> \in BoundarySet THEN {TRUE}
    ELSE near_some_edge(
             UNION {LET area == p.filled_areas[a]
                    IN  {point_to_line_distance_le(px, py, area[i][1], area[i][2],
                                                   area[i + 1][1], area[i + 1][2],
                                                   edge_tol) : i \in 1..(Len(area) - 1)}
                    : a \in 1..Len(p.filled_areas)})

\* is_valid_move without the test against the trace.
is_valid_move_accepting(p, new_x, new_y, on) == TRUE

\* Player.is_valid_move(new_x, new_y), where on is the value its call
\* self.is_on_boundary(new_x, new_y) returns: range(len(temp_points) - 5) is
\* the indices 0 .. len - 6, here 1 .. len - 5.
is_valid_move(p, new_x, new_y, on) ==
    IF (~on) /\ p.drawing
    THEN \A i \in 1..(Len(p.temp_points) - 5) : p.temp_points[i] # <<new_x, new_y>>
    ELSE TRUE

\* get_boundary_side(point) of stop_drawing.
get_boundary_side(point) ==
    IF Abs(point[2] - 0) < side_tol THEN "top"
    ELSE IF Abs(point[1] - (WIDTH - 1)) < side_tol THEN "right"
    ELSE IF Abs(point[2] - (HEIGHT - 1)) < side_tol THEN "bottom"
    ELSE IF Abs(point[1] - 0) < side_tol THEN "left"
    ELSE None

\* desired_corner of stop_drawing; <<>> stands for None.
desired_corner_of(start_side, end_side) ==
    IF start_side # None /\ end_side # None /\ start_side # end_side
    THEN LET key == {start_side, end_side}
         IN  IF key = {"left", "top"} THEN <<0, 0>>
             ELSE IF key = {"top", "right"} THEN <<WIDTH - 1, 0>>
             ELSE IF key = {"right", "bottom"} THEN <<WIDTH - 1, HEIGHT - 1>>
             ELSE IF key = {"bottom", "left"} THEN <<0, HEIGHT - 1>>
             ELSE <<>>
    ELSE <<>>

\* The tolerance test shared by find_index_in_boundary and contains_point.
near_point(q, point) == Abs(q[1] - point[1]) < 1 /\ Abs(q[2] - point[2]) < 1

\* find_index_in_boundary(point): the first index whose boundary point is
\* within 1 of point on both axes, 0 for None.  The points are integers, so a
\* match is a member of the boundary.
find_index_in_boundary(point) ==
    IF point \notin BoundarySet THEN 0
    ELSE LET hits == {i \in DOMAIN boundary_points : near_point(boundary_points[i], point)}
         IN  CHOOSE i \in hits : \A j \in hits : i <= j

\* seg1 and seg2 of stop_drawing for 1-based indices S (start) and E (end).
seg1_of(S, E) ==
    LET bp == boundary_points
    IN  IF S <= E THEN SubSeq(bp, S, E)
        ELSE SubSeq(bp, S, Len(bp)) \o SubSeq(bp, 1, E)

seg2_of(S, E) ==
    LET bp == boundary_points
    IN  IF S <= E THEN SubSeq(bp, E, Len(bp)) \o SubSeq(bp, 1, S)
        ELSE SubSeq(bp, E, S)

contains_point(segment, point) ==
    \E i \in 1..Len(segment) : near_point(segment[i], point)

\* chosen_segment of stop_drawing.
chosen_segment_of(seg1, seg2, desired_corner) ==
    IF desired_corner # <<>>
    THEN (IF contains_point(seg1, desired_corner) THEN seg1 ELSE seg2)
    ELSE (IF Len(seg1) < Len(seg2) THEN seg1 ELSE seg2)

\* Option A and option B of stop_drawing.
polygon1_of(temp_points, chosen_segment) == temp_points \o Reverse(chosen_segment)
polygon2_of(temp_points, chosen_segment) == Reverse(temp_points) \o chosen_segment

\* test_point of stop_drawing: the midpoint of the endpoints (doubled, to stay
\* integral) and the direction of the offset of length offset_len: toward the
\* desired corner when there is one, else the perpendicular (dx, dy).
test_point(start_point, end_point, desired_corner) ==
    LET mx2 == start_point[1] + end_point[1]
        my2 == start_point[2] + end_point[2]
    IN  IF desired_corner # <<>>
        THEN [mx2 |-> mx2, my2 |-> my2,
              vx |-> 2 * desired_corner[1] - mx2, vy |-> 2 * desired_corner[2] - my2]
        ELSE [mx2 |-> mx2, my2 |-> my2,
              vx |-> end_point[2] - start_point[2], vy |-> start_point[1] - end_point[1]]

\* The polygons final_polygon of stop_drawing can be before it is closed, one
\* for each value the point_in_polygon tests can take.
final_polygon_of(tp, polygon1, polygon2) ==
    LET smaller == IF calculate_polygon_area2(polygon1) < calculate_polygon_area2(polygon2)
                   THEN polygon1 ELSE polygon2
    IN  UNION {IF in1 THEN {polygon1}
               ELSE {IF in2 THEN polygon2 ELSE smaller :
                        in2 \in point_in_polygon(tp, polygon2)}
               : in1 \in point_in_polygon(tp, polygon1)}

\* The polygons a closure with resolved indices can append (closed).
closure_polygon(temp_points) ==
    LET start_point == temp_points[1]
        end_point == temp_points[Len(temp_points)]
        desired_corner == desired_corner_of(get_boundary_side(start_point),
                                            get_boundary_side(end_point))
        S == find_index_in_boundary(start_point)
        E == find_index_in_boundary(end_point)
        chosen == chosen_segment_of(seg1_of(S, E), seg2_of(S, E), desired_corner)
        finals == final_polygon_of(test_point(start_point, end_point, desired_corner),
                                   polygon1_of(temp_points, chosen),
                                   polygon2_of(temp_points, chosen))
    IN  {Append(final, final[1]) : final \in finals}

\* The fallback closure left open.
fallback_unclosed(temp_points) == temp_points

\* The fallback closure: the trace followed by its first point.
fallback_polygon(temp_points) == Append(temp_points, temp_points[1])

\* stop_drawing storing the new polygon in place of the territory set.
stop_drawing_replacing(p) ==
    IF (~p.drawing) \/ Len(p.temp_points) <= 2 THEN {p}
    ELSE LET resolved == /\ find_index_in_boundary(p.temp_points[1]) # 0
                         /\ find_index_in_boundary(p.temp_points[Len(p.temp_points)]) # 0
             polygons == IF resolved THEN closure_polygon(p.temp_points)
                         ELSE {fallback_polygon(p.temp_points)}
         IN  {[p EXCEPT !.filled_areas = <<polygon>>,
                        !.drawing = FALSE,
                        !.temp_points = <<>>,
                        !.current_direction = None] : polygon \in polygons}

\* The players Player.stop_drawing can leave, one for each polygon the closure
\* can append.
stop_drawing(p) ==
    IF (~p.drawing) \/ Len(p.temp_points) <= 2 THEN {p}
    ELSE LET start_point == p.temp_points[1]
             end_point == p.temp_points[Len(p.temp_points)]
             resolved == /\ find_index_in_boundary(start_point) # 0
                         /\ find_index_in_boundary(end_point) # 0
             polygons == IF resolved THEN closure_polygon(p.temp_points)
                         ELSE {fallback_polygon(p.temp_points)}
         IN  {[p EXCEPT !.filled_areas = Append(@, polygon),
                        !.drawing = FALSE,
                        !.temp_points = <<>>,
                        !.current_direction = None] : polygon \in polygons}

\* The players Player.start_drawing can leave, one for each value its
\* is_on_boundary test can take.
start_drawing(p) ==
    IF p.drawing THEN {p}
    ELSE {IF on
          THEN [p EXCEPT !.drawing = TRUE,
                         !.temp_points = <<<<p.x, p.y>>>>,
                         !.current_direction = None]
          ELSE p : on \in is_on_boundary(p, p.x, p.y)}

\* The direction Player.move steers to for input (dx, dy) while drawing.
new_direction_of(dx, dy) ==
    IF dx > 0 THEN "right"
    ELSE IF dx < 0 THEN "left"
    ELSE IF dy > 0 THEN "down"
    ELSE "up"

next_direction(current_direction, dx, dy) ==
    IF dx # 0 \/ dy # 0
    THEN LET new_direction == new_direction_of(dx, dy)
         IN  IF current_direction # None
             THEN (IF \/ (current_direction \in {"left", "right"}
                          /\ new_direction \in {"up", "down"})
                      \/ (current_direction \in {"up", "down"}
                          /\ new_direction \in {"left", "right"})
                   THEN new_direction ELSE current_direction)
             ELSE new_direction
    ELSE current_direction

\* The unit step Player.move applies while drawing: by current_direction, or
\* the raw input when there is none.
step_of(current_direction, dx, dy) ==
    IF current_direction = "up" THEN <<0, -1>>
    ELSE IF current_direction = "down" THEN <<0, 1>>
    ELSE IF current_direction = "left" THEN <<-1, 0>>
    ELSE IF current_direction = "right" THEN <<1, 0>>
    ELSE <<dx, dy>>

\* Player.move while drawing, lines 149-179: the direction after the input
\* and the target <<new_x, new_y>>.
move_target(p, dx, dy) ==
    LET step == step_of(next_direction(p.current_direction, dx, dy), dx, dy)
    IN  <<p.x + step[1] * speed, p.y + step[2] * speed>>

\* Player.move while drawing, lines 149-188: the player once the target is
\* appended to the trace, or left in place when is_valid_move rejects it.
\* on is the value is_on_boundary returns for the target; is_valid_move and
\* line 190 both ask it of the same point against the same territory.
move_step(p, dx, dy, on) ==
    LET target == move_target(p, dx, dy)
        p1 == [p EXCEPT !.current_direction = next_direction(@, dx, dy)]
    IN  IF is_valid_move(p1, target[1], target[2], on)
        THEN [p1 EXCEPT !.x = target[1], !.y = target[2],
                        !.temp_points = Append(@, target)]
        ELSE p1

\* Player.move while drawing, line 190: the new point hits the boundary
\* away from the first point of the trace (p2 is the player after move_step,
\* on the value of is_on_boundary for the target).
touches_boundary(p2, target, on) ==
    on /\ target # p2.temp_points[1]

\* Player.move while drawing, lines 149-191, for the value on that
\* is_on_boundary returns for the target: the step, then the closure when the
\* new point touches the boundary.
move_drawing(p, dx, dy, on) ==
    LET p2 == move_step(p, dx, dy, on)
    IN  IF touches_boundary(p2, move_target(p, dx, dy), on)
        THEN stop_drawing(p2)
        ELSE {p2}

\* The values is_on_boundary can return for the target of a move while drawing.
target_on_boundary(p, dx, dy) ==
    LET target == move_target(p, dx, dy)
    IN  is_on_boundary(p, target[1], target[2])

\* move whose free movement skips the is_on_boundary test.
move_unchecked(p, dx, dy) ==
    IF p.drawing
    THEN UNION {move_drawing(p, dx, dy, on) : on \in target_on_boundary(p, dx, dy)}
    ELSE {[p EXCEPT !.x = p.x + dx * speed, !.y = p.y + dy * speed]}

\* The players Player.move(dx, dy) can leave, one for each value its
\* is_on_boundary tests and its closure can take.
move(p, dx, dy) ==
    IF p.drawing
    THEN UNION {move_drawing(p, dx, dy, on) : on \in target_on_boundary(p, dx, dy)}
    ELSE LET new_x == p.x + dx * speed
             new_y == p.y + dy * speed
         IN  {IF on THEN [p EXCEPT !.x = new_x, !.y = new_y] ELSE p :
                 on \in is_on_boundary(p, new_x, new_y)}

\* ------------------------------------------------------------ state
\* player: the Player object of main(); game_over, game_win: its flags.
VARIABLES player, game_over, game_win

vars == <<player, game_over, game_win>>

x == player.x
y == player.y
drawing == player.drawing
temp_points == player.temp_points
filled_areas == player.filled_areas
current_direction == player.current_direction

\* Player.__init__.
new_player ==
    [x |-> 0, y |-> 0, drawing |-> FALSE, temp_points |-> <<>>,
     filled_areas |-> <<>>, current_direction |-> None]

\* The locals of main() before its loop.
Init ==
    /\ player = new_player
    /\ game_over = FALSE
    /\ game_win = FALSE

\* The key states main() reads: dx and dy are each -1, 0 or 1.
KeyAxis == {-1, 0, 1}

\* What the bounds b = [trace, areas, coord] let a step from p to q reach:
\* the trace and the territory set stay within b.trace and b.areas, and free
\* (non-drawing) movement stays within |x|, |y| <= b.coord.
WithinBounds(p, q, b) ==
    /\ Len(q.temp_points) <= b.trace
    /\ Len(q.filled_areas) <= b.areas
    /\ (~p.drawing /\ <<q.x, q.y>> # <<p.x, p.y>>)
          => (Abs(q.x) <= b.coord /\ Abs(q.y) <= b.coord)

\* main(): KEYDOWN K_SPACE while not drawing calls start_drawing.
KeySpaceIn(b) ==
    /\ ~drawing
    /\ Len(filled_areas) < b.areas
    /\ player' \in start_drawing(player)
    /\ UNCHANGED <<game_over, game_win>>

\* The players the update of one frame of main() can leave with key state
\* (dx, dy) and check_collision returning hit: move, then the collision stop.
frame_player(p, dx, dy, hit) ==
    UNION {IF hit THEN stop_drawing(moved) ELSE {moved} : moved \in move(p, dx, dy)}

\* fill_percentage >= TARGET_FILL_PERCENTAGE.
win_reached(areas) ==
    calculate_area_percentage_num(areas) >= TARGET_FILL_PERCENTAGE * percentage_den

\* One frame of main() while neither flag is set: the enemies' positions are
\* outside the model, so check_collision may return either value.
FrameIn(dx, dy, hit, b) ==
    /\ ~(game_over \/ game_win)
    /\ player' \in frame_player(player, dx, dy, hit)
    /\ WithinBounds(player, player', b)
    /\ game_over' = hit
    /\ game_win' = win_reached(player'.filled_areas)

\* ------------------------------------------------------------ Spec
\* A round from its start, any keys and any collisions, up to the first
\* MaxAreas captures.
SpecBounds == [trace |-> MaxTrace, areas |-> MaxAreas, coord |-> MaxCoord]

KeySpace == KeySpaceIn(SpecBounds)

Frame(dx, dy, hit) == FrameIn(dx, dy, hit, SpecBounds)

Next ==
    \/ KeySpace
    \/ \E dx \in KeyAxis, dy \in KeyAxis, hit \in BOOLEAN : Frame(dx, dy, hit)

Spec == Init /\ [][Next]_vars

\* ------------------------------------------------------------ SpecLater
\* The round continued after a first capture, any keys and any collisions:
\* the player went one step down the left edge, pressed space, drew one step
\* right and one step up, which closed the 4 x 4 square at the corner (0, 0).
first_capture ==
    LET walked == move(new_player, 0, 1)
        started == UNION {start_drawing(q) : q \in walked}
        drawn == UNION {move(q, 1, 0) : q \in started}
    IN  UNION {move(q, 0, -1) : q \in drawn}

InitLater ==
    /\ player \in first_capture
    /\ game_over = FALSE
    /\ game_win = FALSE

LaterBounds == [trace |-> MaxTrace, areas |-> MaxAreas + 1, coord |-> MaxCoord]

KeySpaceLater == KeySpaceIn(LaterBounds)

FrameLater(dx, dy, hit) == FrameIn(dx, dy, hit, LaterBounds)

NextLater ==
    \/ KeySpaceLater
    \/ \E dx \in KeyAxis, dy \in KeyAxis, hit \in BOOLEAN : FrameLater(dx, dy, hit)

SpecLater == InitLater /\ [][NextLater]_vars

\* ------------------------------------------------------------ SpecOverlap
\* A round played by script from its start, with no collision: the player
\* walks SquareA steps down the left edge, presses space, draws SquareA steps
\* right and then up to the top edge (the first capture, a square at the
\* corner (0, 0)); walks back along the top edge to the corner and SquareB
\* steps down the left edge, presses space, and draws SquareB steps right and
\* then up to the top edge (the second capture, a larger square at the same
\* corner).
side_of_square == IF filled_areas = <<>> THEN speed * SquareA ELSE speed * SquareB

OverlapBounds ==
    [trace |-> 2 * SquareB + 1, areas |-> 2, coord |-> speed * SquareB]

\* The keys the script holds in the current state.
script_keys ==
    IF drawing
    THEN (IF x < side_of_square THEN <<1, 0>> ELSE <<0, -1>>)
    ELSE (IF x > 0 THEN <<-1, 0>> ELSE <<0, 1>>)

KeySpaceOverlap ==
    /\ x = 0
    /\ y = side_of_square
    /\ KeySpaceIn(OverlapBounds)

FrameOverlap ==
    /\ drawing \/ ~(x = 0 /\ y = side_of_square)
    /\ FrameIn(script_keys[1], script_keys[2], FALSE, OverlapBounds)

NextOverlap == KeySpaceOverlap \/ FrameOverlap

SpecOverlap == Init /\ [][NextOverlap]_vars

\* ------------------------------------------------------------ SpecLoop
\* A round from its start without a collision, any keys, with traces long
\* enough to walk around a block of the grid and come back to a point of the
\* trace, up to the first capture.
LoopBounds == [trace |-> MaxLoop, areas |-> 1, coord |-> MaxCoord]

KeySpaceLoop == KeySpaceIn(LoopBounds)

FrameLoop(dx, dy) == FrameIn(dx, dy, FALSE, LoopBounds)

NextLoop ==
    \/ KeySpaceLoop
    \/ \E dx \in KeyAxis, dy \in KeyAxis : FrameLoop(dx, dy)

SpecLoop == Init /\ [][NextLoop]_vars

\* ------------------------------------------------------------ claims
Playing == ~(game_over \/ game_win)

\* Both endpoints of trace T resolve to boundary indices.
Resolved(T) ==
    find_index_in_boundary(T[1]) # 0 /\ find_index_in_boundary(T[Len(T)]) # 0

IsPrefix(s, t) == Len(s) <= Len(t) /\ SubSeq(t, 1, Len(s)) = s

\* A step of the round in which the trace grew by one point and the session
\* stayed open.
TraceGrew ==
    drawing /\ drawing' /\ Len(temp_points') = Len(temp_points) + 1

\* C1 (as claimed): the move whose new point is on the boundary, away from
\* the first point of the trace, ends the session in that call for every trace
\* length: no step leaves the session open with the point it just appended on
\* the boundary, and a step that ends a session appends exactly one polygon.
C1_Step ==
    /\ TraceGrew => ~touches_boundary(player', <<x', y'>>,
                                      is_on_boundary(player', x', y') = {TRUE})
    /\ (drawing /\ ~drawing') => Len(filled_areas') = Len(filled_areas) + 1

C1_ClosesOnFirstTouch == [][C1_Step]_vars

\* The traces a frame can hand to the closure in the current state: the trace
\* after the frame's move_step, for each key state.  A collision in that frame
\* calls stop_drawing on it, and so does the move itself when the new point
\* touches the boundary.
FrameTraces ==
    IF drawing /\ Playing
    THEN UNION {{move_step(player, k[1], k[2], on).temp_points :
                    on \in target_on_boundary(player, k[1], k[2])} :
                k \in KeyAxis \X KeyAxis}
    ELSE {}

\* The traces on which a closure with resolved endpoints can run.
ClosableTraces == {T \in FrameTraces : Len(T) > 2 /\ Resolved(T)}

\* The arc stop_drawing chooses for trace T.
chosen_for(T) ==
    LET S == find_index_in_boundary(T[1])
        E == find_index_in_boundary(T[Len(T)])
    IN  chosen_segment_of(seg1_of(S, E), seg2_of(S, E),
                          desired_corner_of(get_boundary_side(T[1]),
                                            get_boundary_side(T[Len(T)])))

\* A candidate polygon whose first k points are its trace part is a continuous
\* closed walk: its arc part begins where the trace part ends and ends where
\* the trace part begins.
Continuous(polygon, k) ==
    /\ near_point(polygon[k + 1], polygon[k])
    /\ near_point(polygon[Len(polygon)], polygon[1])

\* C2 (as claimed): in every closure with resolved endpoints exactly one of
\* the two candidate polygons is a continuous closed walk.
C2_ExactlyOneContinuous ==
    \A T \in ClosableTraces :
        LET P1 == polygon1_of(T, chosen_for(T))
            P2 == polygon2_of(T, chosen_for(T))
        IN  Continuous(P1, Len(T)) # Continuous(P2, Len(T))

\* The traces a boundary touch closes in the current state, with resolved
\* endpoints on two adjacent sides, neither endpoint being the shared corner,
\* and every point between the endpoints off the boundary (the trace crosses
\* the field and its last point is the first to touch the boundary again).
CornerTraces ==
    IF drawing /\ Playing
    THEN {T \in FrameTraces :
             /\ Len(T) > 2
             /\ Resolved(T)
             /\ is_on_boundary(player, T[Len(T)][1], T[Len(T)][2]) = {TRUE}
             /\ T[Len(T)] # T[1]
             /\ \A i \in 2..(Len(T) - 1) :
                   is_on_boundary(player, T[i][1], T[i][2]) = {FALSE}
             /\ LET c == desired_corner_of(get_boundary_side(T[1]),
                                           get_boundary_side(T[Len(T)]))
                IN  c # <<>> /\ T[1] # c /\ T[Len(T)] # c}
    ELSE {}

\* Twice the area of the region bounded by trace T and the arc through the
\* corner c: the closed walk T, c, T[1].
corner_region_area2(T, c) == calculate_polygon_area2(T \o <<c, T[1]>>)

\* C3 (as claimed): a trace from one side to an adjacent side is closed with
\* the arc through the shared corner, and the appended polygon has the area
\* of the region bounded by the trace and that arc, which is positive, in
\* either drawing direction.
C3_CornerRegionArea ==
    \A T \in CornerTraces :
        LET c == desired_corner_of(get_boundary_side(T[1]), get_boundary_side(T[Len(T)]))
        IN  /\ contains_point(chosen_for(T), c)
            /\ \A polygon \in closure_polygon(T) :
                  /\ calculate_polygon_area2(polygon) = corner_region_area2(T, c)
                  /\ calculate_polygon_area2(polygon) > 0

\* C4 (as claimed): every stop_drawing called while drawing consumes the
\* trace: a frame in which the collision is detected, or whose move touched
\* the boundary, ends with drawing false and temp_points empty.
C4_Step ==
    /\ (~game_over /\ game_over') => (~drawing' /\ temp_points' = <<>>)
    /\ TraceGrew => ~touches_boundary(player', <<x', y'>>,
                                      is_on_boundary(player', x', y') = {TRUE})

C4_TraceConsumed == [][C4_Step]_vars

\* C5: whenever the player is not drawing, its position is on the combined
\* boundary (a boundary point, or within edge_tol of a filled polygon's edge):
\* is_on_boundary can only return True there.
C5_MovementGate == ~drawing => is_on_boundary(player, x, y) = {TRUE}

\* C5 witness: the player is not drawing and stands off the rectangle, on the
\* edge of a captured polygon.
C5_OnPolygonEdge ==
    /\ ~drawing
    /\ filled_areas # <<>>
    /\ <<x, y>> \notin BoundarySet

\* C6: the territory set only grows at its end: across every step the old
\* filled_areas is a prefix of the new one, so no polygon is removed,
\* reordered, replaced or changed.
C6_AppendOnly == [][IsPrefix(filled_areas, filled_areas')]_vars

\* C6 witness: a second polygon has been appended after the first capture.
C6_SecondAppended ==
    /\ Len(filled_areas) = 2
    /\ \E q \in first_capture : filled_areas[1] = q.filled_areas[1]

\* C7 (as claimed): the coverage percentage lies in [0, 100].
C7_PercentageInRange ==
    /\ calculate_area_percentage_num(filled_areas) >= 0
    /\ calculate_area_percentage_num(filled_areas) <= 100 * percentage_den

\* C8 (as claimed): every polygon appended to filled_areas has a shoelace
\* area greater than 0.
C8_PositiveArea ==
    \A a \in 1..Len(filled_areas) : calculate_polygon_area2(filled_areas[a]) > 0

\* C9 (as claimed): consecutive points of temp_points differ by one
\* axis-aligned step of length speed.
C9_TraceSteps ==
    \A i \in 1..(Len(temp_points) - 1) :
        LET ddx == temp_points[i + 1][1] - temp_points[i][1]
            ddy == temp_points[i + 1][2] - temp_points[i][2]
        IN  \/ (Abs(ddx) = speed /\ ddy = 0)
            \/ (ddx = 0 /\ Abs(ddy) = speed)

\* C10: when stop_drawing runs on a trace of more than 2 points whose first
\* or last point resolves to no boundary index, exactly the trace followed by
\* its first point is appended, and the session ends with drawing false,
\* temp_points empty and current_direction None.
C10_FallbackClosure ==
    (drawing /\ Playing) =>
        \A dx \in KeyAxis, dy \in KeyAxis, hit \in BOOLEAN :
            \A on \in target_on_boundary(player, dx, dy) :
                LET p2 == move_step(player, dx, dy, on)
                    T == p2.temp_points
                    moved == move_drawing(player, dx, dy, on)
                    ended == IF hit THEN UNION {stop_drawing(m) : m \in moved}
                             ELSE moved
                IN  (/\ Len(T) > 2
                     /\ ~Resolved(T)
                     /\ (hit \/ touches_boundary(p2, move_target(player, dx, dy), on)))
                    => \A q \in ended :
                          /\ q \in frame_player(player, dx, dy, hit)
                          /\ q.filled_areas = Append(filled_areas, T \o <<T[1]>>)
                          /\ ~q.drawing
                          /\ q.temp_points = <<>>
                          /\ q.current_direction = None

\* C10 witness: the second polygon was appended by the fallback: its first
\* point, where the trace started, is no boundary point, and it is closed by
\* repeating that point.
C10_FallbackStored ==
    /\ ~drawing
    /\ Len(filled_areas) = 2
    /\ filled_areas[2][1] \notin BoundarySet
    /\ filled_areas[2][Len(filled_areas[2])] = filled_areas[2][1]

\* C11 (as claimed): the player never leaves the play field: in every state,
\* drawing or not, 0 <= x <= WIDTH - 1 and 0 <= y <= HEIGHT - 1.
C11_InsideField ==
    /\ 0 <= x /\ x <= WIDTH - 1
    /\ 0 <= y /\ y <= HEIGHT - 1

\* Every point of trace T lies in the play field.
TraceInsideField(T) ==
    \A i \in 1..Len(T) :
        /\ 0 <= T[i][1] /\ T[i][1] <= WIDTH - 1
        /\ 0 <= T[i][2] /\ T[i][2] <= HEIGHT - 1

\* C12 (as claimed): while drawing, no accepted move appends a non-boundary
\* point that is already in the trace, wherever in the trace it is: such a
\* move is rejected, so the trace never passes twice through the same
\* off-boundary point.  Read on the traces that stay in the play field.
C12_Step ==
    (TraceGrew /\ TraceInsideField(temp_points')) =>
        \/ is_on_boundary(player, x', y') # {FALSE}
        \/ \A i \in 1..Len(temp_points) : temp_points[i] # <<x', y'>>

C12_RejectsEveryRevisit == [][C12_Step]_vars

\* The points of the trace that is_valid_move compares the target with: all
\* but the five most recent.
older_points(p) == {p.temp_points[i] : i \in 1..(Len(p.temp_points) - 5)}

\* C12 (amended): while drawing, a move whose target is a non-boundary point
\* equal to a trace point other than the five most recent is rejected
\* (position and temp_points unchanged, drawing goes on); a non-boundary
\* target that is not among those older points is accepted and appended,
\* also when it repeats one of the five most recent points.
C12_RejectsOlderRevisit ==
    (drawing /\ Playing) =>
        \A dx \in KeyAxis, dy \in KeyAxis :
            LET target == move_target(player, dx, dy)
            IN  (FALSE \in target_on_boundary(player, dx, dy)) =>
                    \A q \in move_drawing(player, dx, dy, FALSE) :
                        /\ q \in move(player, dx, dy)
                        /\ IF target \in older_points(player)
                           THEN /\ q.x = x /\ q.y = y
                                /\ q.temp_points = temp_points
                                /\ q.drawing
                           ELSE /\ q.x = target[1] /\ q.y = target[2]
                                /\ q.temp_points = Append(temp_points, target)

\* C12 witness: the player has walked around two blocks of the grid and
\* faces an off-boundary point it left more than five points ago; the frame
\* that moves on in that direction is rejected and leaves the player as is.
C12_OlderRevisitRejected ==
    /\ drawing /\ Playing
    /\ current_direction # None
    /\ TraceInsideField(temp_points)
    /\ LET target == move_target(player, 0, 0)
       IN  /\ is_on_boundary(player, target[1], target[2]) = {FALSE}
           /\ target \in older_points(player)
           /\ move(player, 0, 0) = {player}

\* C13 (as claimed): game_over and game_win are never both true: the frame
\* in which a collision is detected (game_over set) does not set game_win.
C13_NeverBothFlags == ~(game_over /\ game_win)

====
